---- MODULE Spec2Model ----
(***************************************************************************)
(* The minesweeper board of rmines (src/src/game.rs): construction with    *)
(* with-replacement mine sampling, the frontier ("cached") / explored      *)
(* ("clear") / flagged sets, the one-cell-per-call flood fill of           *)
(* Board::explore, flag toggling through Board::update_label, and the      *)
(* text buffer whose cells are overwritten in place; and the earlier draft *)
(* of the board in src/src/main.rs with the command loop that drives it.   *)
(***************************************************************************)
EXTENDS Integers, Sequences, FiniteSets

\* Bounds of the model: largest row and column arguments given to Board::new,
\* largest area of a board that is built, largest requested mine count.
MaxRows == 2
MaxCols == 2
MaxArea == 4
MaxMineCount == 2

\* usize::MAX, the value 0usize - 1 wraps to when overflow checks are off.
\* The model's integers stop at 2^31 - 1; all that is used of the value is
\* that no row or column count exceeds it.
UsizeMax == 2147483647

VARIABLES
    rows, cols, area,   \* Board.rows, Board.cols, Board.area
    flagged,            \* Board.flagged
    cached,             \* Board.cached  (the frontier)
    clear,              \* Board.clear   (the explored set)
    mines_at,           \* Board.mines_at
    board_string,       \* Board.board_string, a sequence of characters
    labels,             \* Board.labels: Coord -> byte offset in board_string
    hasBoard,           \* whether Board::new has returned Ok(board)
    overflow_checks,    \* the build: debug (checked arithmetic) or release
    panicked,           \* the thread has panicked
    call,               \* the last call made: its name, and the arguments
                        \* of Board::new (a cache or update_label call's
                        \* coordinate is not kept)
    ret                 \* what the last call returned

vars == <<rows, cols, area, flagged, cached, clear, mines_at, board_string,
          labels, hasBoard, overflow_checks, panicked, call, ret>>

----------------------------------------------------------------------------
\* Text formatting, as std::fmt does it for the format strings of Board::new.

DigitChars == <<"0", "1", "2", "3", "4", "5", "6", "7", "8", "9">>

\* usize::to_string: the decimal digits, most significant first.
RECURSIVE to_string(_)
to_string(n) ==
    IF n < 10 THEN <<DigitChars[n + 1]>>
    ELSE to_string(n \div 10) \o <<DigitChars[(n % 10) + 1]>>

RECURSIVE Repeat(_, _)
Repeat(s, n) == IF n = 0 THEN <<>> ELSE s \o Repeat(s, n - 1)

\* {:width$} of a number and {:>width$} of a char: right-aligned, padded
\* with spaces to at least `width' characters.
PadLeft(s, width) ==
    IF Len(s) >= width THEN s ELSE Repeat(<<" ">>, width - Len(s)) \o s

\* The column labels 2..cols of the header line.
RECURSIVE HeaderCols(_, _, _)
HeaderCols(col, ncols, col_label_width) ==
    IF col > ncols THEN <<>>
    ELSE PadLeft(to_string(col), col_label_width) \o <<"|">>
         \o HeaderCols(col + 1, ncols, col_label_width)

\* The lines of rows row..nrows-1: row label, then one '.' per cell.
RECURSIVE RowLines(_, _, _, _, _)
RowLines(row, nrows, ncols, row_label_width, col_label_width) ==
    IF row >= nrows THEN <<>>
    ELSE PadLeft(to_string(row + 1), row_label_width) \o <<"|">>
         \o Repeat(PadLeft(<<".">>, col_label_width + 1), ncols)
         \o <<"\n">>
         \o RowLines(row + 1, nrows, ncols, row_label_width, col_label_width)

\* The blank board text built by Board::new.
BlankBoardString(nrows, ncols) ==
    LET row_label_width == Len(to_string(nrows)) + 1
        col_label_width == Len(to_string(ncols)) + 2
    IN  PadLeft(to_string(1), (row_label_width + 1) + col_label_width) \o <<"|">>
        \o HeaderCols(2, ncols, col_label_width)
        \o <<"\n">>
        \o RowLines(0, nrows, ncols, row_label_width, col_label_width)

\* str::match_indices('.'): the 0-based offsets of the dots, ascending.
MatchIndices(s, ch) ==
    SelectSeq([i \in 1..Len(s) |-> i - 1], LAMBDA i : s[i + 1] = ch)

\* The labels map: the n-th dot belongs to coordinate (n / cols, n % cols).
BuildLabels(s, ncols) ==
    LET dots == MatchIndices(s, ".")
    IN  [co \in {<<n \div ncols, n % ncols>> : n \in 0..(Len(dots) - 1)}
            |-> dots[co[1] * ncols + co[2] + 1]]

\* String::replace_range(index..index, ch): the empty range, which inserts.
ReplaceRange_Inserts(s, index, ch) ==
    SubSeq(s, 1, index) \o <<ch>> \o SubSeq(s, index + 1, Len(s))

\* String::replace_range(index..index + 1, ch) with a one-byte ch.
ReplaceRange(s, index, ch) == [s EXCEPT ![index + 1] = ch]

----------------------------------------------------------------------------
\* The board as a value, and the methods of impl Board as operators on it.

Self ==
    [rows |-> rows, cols |-> cols, area |-> area, flagged |-> flagged,
     cached |-> cached, clear |-> clear, mines_at |-> mines_at,
     board_string |-> board_string, labels |-> labels]

NoBoard ==
    [rows |-> 0, cols |-> 0, area |-> 0, flagged |-> {}, cached |-> {},
     clear |-> {}, mines_at |-> {}, board_string |-> <<>>, labels |-> <<>>]

\* Board::new with the two argument checks in the other order.
new_MinesFirst(nrows, ncols, mine_count, draws) ==
    LET board_area == nrows * ncols
        text == BlankBoardString(nrows, ncols)
        mines == {<<draws[i] \div ncols, draws[i] % ncols>> : i \in 1..mine_count}
    IN  IF board_area <= mine_count
        THEN [ret |-> "TooManyMines", self |-> NoBoard]
        ELSE IF board_area = 0 THEN [ret |-> "NullArea", self |-> NoBoard]
        ELSE [ret |-> "Ok",
              self |-> [rows |-> nrows, cols |-> ncols, area |-> board_area,
                        flagged |-> {}, cached |-> {}, clear |-> {},
                        mines_at |-> mines,
                        board_string |-> text,
                        labels |-> BuildLabels(text, ncols)]]

\* Board::new mapping a sample to (index % cols, index / cols).
new_SwappedDivMod(nrows, ncols, mine_count, draws) ==
    LET board_area == nrows * ncols
        text == BlankBoardString(nrows, ncols)
        mines == {<<draws[i] % ncols, draws[i] \div ncols>> : i \in 1..mine_count}
    IN  IF board_area = 0 THEN [ret |-> "NullArea", self |-> NoBoard]
        ELSE IF board_area <= mine_count
        THEN [ret |-> "TooManyMines", self |-> NoBoard]
        ELSE [ret |-> "Ok",
              self |-> [rows |-> nrows, cols |-> ncols, area |-> board_area,
                        flagged |-> {}, cached |-> {}, clear |-> {},
                        mines_at |-> mines,
                        board_string |-> text,
                        labels |-> BuildLabels(text, ncols)]]

\* Board::new with the samples the uniform distribution yields.
new(nrows, ncols, mine_count, draws) ==
    LET board_area == nrows * ncols
        text == BlankBoardString(nrows, ncols)
        mines == {<<draws[i] \div ncols, draws[i] % ncols>> : i \in 1..mine_count}
    IN  IF board_area = 0 THEN [ret |-> "NullArea", self |-> NoBoard]
        ELSE IF board_area <= mine_count
        THEN [ret |-> "TooManyMines", self |-> NoBoard]
        ELSE [ret |-> "Ok",
              self |-> [rows |-> nrows, cols |-> ncols, area |-> board_area,
                        flagged |-> {}, cached |-> {}, clear |-> {},
                        mines_at |-> mines,
                        board_string |-> text,
                        labels |-> BuildLabels(text, ncols)]]

\* x -= 1 on a usize when overflow checks are off.
WrappingDec(x) == IF x = 0 THEN UsizeMax ELSE x - 1

\* Whether `coord.0 -= 1; coord.1 -= 1' panics: it does on a 0 when the
\* build checks arithmetic overflow.
DecPanics(coord, checks) == checks /\ (coord[1] = 0 \/ coord[2] = 0)

\* Board::cache with the range test of the draft in main.rs, on the linear
\* index of the coordinate.
cache_LinearIndex(self, coord, checks) ==
    IF DecPanics(coord, checks) THEN [ret |-> "panic", self |-> self]
    ELSE LET c == <<WrappingDec(coord[1]), WrappingDec(coord[2])>>
         IN  IF c[1] = UsizeMax \/ c[2] = UsizeMax
                \/ ~(c[1] * self.cols + c[2] < self.area)
             THEN [ret |-> "InvalidCoordinate", self |-> self]
             ELSE IF c \in self.clear
             THEN [ret |-> "Clear", self |-> self]
             ELSE [ret |-> "Ok",
                   self |-> [self EXCEPT !.cached = self.cached \cup {c}]]

\* Board::cache without the offset of the user's coordinate.
cache_NoOffset(self, coord, checks) ==
    LET c == coord
    IN  IF ~(c[1] < self.rows /\ c[2] < self.cols)
        THEN [ret |-> "InvalidCoordinate", self |-> self]
        ELSE IF c \in self.clear
        THEN [ret |-> "Clear", self |-> self]
        ELSE [ret |-> "Ok",
              self |-> [self EXCEPT !.cached = self.cached \cup {c}]]

\* Board::cache queueing an explored coordinate again, taking it out of
\* clear.
cache_Reexplores(self, coord, checks) ==
    IF DecPanics(coord, checks) THEN [ret |-> "panic", self |-> self]
    ELSE LET c == <<WrappingDec(coord[1]), WrappingDec(coord[2])>>
         IN  IF ~(c[1] < self.rows /\ c[2] < self.cols)
             THEN [ret |-> "InvalidCoordinate", self |-> self]
             ELSE [ret |-> "Ok",
                   self |-> [self EXCEPT !.cached = self.cached \cup {c},
                                         !.clear = self.clear \ {c}]]

\* Board::cache without the test for an explored coordinate.
cache_NoClearCheck(self, coord, checks) ==
    IF DecPanics(coord, checks) THEN [ret |-> "panic", self |-> self]
    ELSE LET c == <<WrappingDec(coord[1]), WrappingDec(coord[2])>>
         IN  IF ~(c[1] < self.rows /\ c[2] < self.cols)
             THEN [ret |-> "InvalidCoordinate", self |-> self]
             ELSE [ret |-> "Ok",
                   self |-> [self EXCEPT !.cached = self.cached \cup {c}]]

\* Board::cache.
cache(self, coord, checks) ==
    IF DecPanics(coord, checks) THEN [ret |-> "panic", self |-> self]
    ELSE LET c == <<WrappingDec(coord[1]), WrappingDec(coord[2])>>
         IN  IF ~(c[1] < self.rows /\ c[2] < self.cols)
             THEN [ret |-> "InvalidCoordinate", self |-> self]
             ELSE IF c \in self.clear
             THEN [ret |-> "Clear", self |-> self]
             ELSE [ret |-> "Ok",
                   self |-> [self EXCEPT !.cached = self.cached \cup {c}]]

\* Board::reveal_mines also taking the flags off the mined cells.
reveal_mines_Unflags(self) ==
    [self EXCEPT !.flagged = self.flagged \ self.mines_at,
                 !.board_string =
        [i \in 1..Len(self.board_string) |->
            IF \E m \in self.mines_at : self.labels[m] + 1 = i
            THEN "*" ELSE self.board_string[i]]]

\* Board::reveal_mines: every mined cell's character becomes '*'. The
\* offsets are distinct, so the order of the iteration does not matter.
reveal_mines(self) ==
    [self EXCEPT !.board_string =
        [i \in 1..Len(self.board_string) |->
            IF \E m \in self.mines_at : self.labels[m] + 1 = i
            THEN "*" ELSE self.board_string[i]]]

\* The arm of update_label's match for each label, at a coordinate that has
\* an entry in labels.
LabelClear(self, at) ==
    [self EXCEPT !.flagged = self.flagged \ {at},
                 !.board_string = ReplaceRange(self.board_string, self.labels[at], " ")]

LabelMinedNeighbors(self, at, mine_count) ==
    [self EXCEPT !.flagged = self.flagged \ {at},
                 !.board_string = ReplaceRange(self.board_string, self.labels[at],
                                               to_string(mine_count)[1])]

\* The Flag arm admitting a flag while flagged.len() <= mines_at.len().
LabelFlag_OffByOne(self, at) ==
    IF at \in self.flagged
    THEN [self EXCEPT !.flagged = self.flagged \ {at},
                      !.board_string = ReplaceRange(self.board_string, self.labels[at], ".")]
    ELSE IF Cardinality(self.flagged) <= Cardinality(self.mines_at)
    THEN [self EXCEPT !.flagged = self.flagged \cup {at},
                      !.board_string = ReplaceRange(self.board_string, self.labels[at], ">")]
    ELSE self

LabelFlag(self, at) ==
    IF at \in self.flagged
    THEN [self EXCEPT !.flagged = self.flagged \ {at},
                      !.board_string = ReplaceRange(self.board_string, self.labels[at], ".")]
    ELSE IF Cardinality(self.flagged) < Cardinality(self.mines_at)
    THEN [self EXCEPT !.flagged = self.flagged \cup {at},
                      !.board_string = ReplaceRange(self.board_string, self.labels[at], ">")]
    ELSE self

\* Board::update_label. label is <<"Clear">>, <<"Flag">> or
\* <<"MinedNeighbors", n>>.
update_label(self, coord, label, from_ui, checks) ==
    IF from_ui /\ DecPanics(coord, checks) THEN [ret |-> "panic", self |-> self]
    ELSE LET at == IF from_ui
                   THEN <<WrappingDec(coord[1]), WrappingDec(coord[2])>>
                   ELSE coord
         IN  IF at \in DOMAIN self.labels
             THEN [ret |-> "true",
                   self |-> CASE label[1] = "Clear" -> LabelClear(self, at)
                              [] label[1] = "MinedNeighbors" ->
                                    LabelMinedNeighbors(self, at, label[2])
                              [] label[1] = "Flag" -> LabelFlag(self, at)]
             ELSE [ret |-> "false", self |-> self]

\* Option<usize>: <<>> is None, <<v>> is Some(v).
None == <<>>
Some(v) == <<v>>
IsSome(o) == Len(o) = 1

\* The neighborhood without its four diagonal elements.
Neighborhood_FourWay(self, row, col) ==
    LET above == IF row = 0 THEN None ELSE Some(row - 1)
        below == IF row + 1 < self.rows THEN Some(row + 1) ELSE None
        left  == IF col = 0 THEN None ELSE Some(col - 1)
        right == IF col + 1 < self.cols THEN Some(col + 1) ELSE None
    IN  << <<above, Some(col)>>, <<Some(row), left>>, <<Some(row), right>>,
           <<below, Some(col)>> >>

\* The neighborhood array of Board::explore, in its order.
Neighborhood(self, row, col) ==
    LET above == IF row = 0 THEN None ELSE Some(row - 1)
        below == IF row + 1 < self.rows THEN Some(row + 1) ELSE None
        left  == IF col = 0 THEN None ELSE Some(col - 1)
        right == IF col + 1 < self.cols THEN Some(col + 1) ELSE None
    IN  << <<above, left>>,     <<above, Some(col)>>, <<above, right>>,
           <<Some(row), left>>,                       <<Some(row), right>>,
           <<below, left>>,     <<below, Some(col)>>, <<below, right>> >>

\* The loop over the neighborhood pushing every neighbor that is not
\* explored, mined or not, and counting no mine.
RECURSIVE ScanNeighbors_QueuesMines(_, _, _, _, _)
ScanNeighbors_QueuesMines(self, neighborhood, i, mined, unexplored) ==
    IF i > Len(neighborhood) THEN [mined |-> mined, unexplored |-> unexplored]
    ELSE LET neighbor == neighborhood[i]
         IN  IF IsSome(neighbor[1]) /\ IsSome(neighbor[2])
                /\ <<neighbor[1][1], neighbor[2][1]>> \notin self.clear
             THEN ScanNeighbors_QueuesMines(self, neighborhood, i + 1, mined,
                        Append(unexplored, <<neighbor[1][1], neighbor[2][1]>>))
             ELSE ScanNeighbors_QueuesMines(self, neighborhood, i + 1, mined,
                                            unexplored)

\* The loop over the neighborhood from its i-th element on: the mines
\* counted so far and the candidates pushed so far.
RECURSIVE ScanNeighbors(_, _, _, _, _)
ScanNeighbors(self, neighborhood, i, mined, unexplored) ==
    IF i > Len(neighborhood) THEN [mined |-> mined, unexplored |-> unexplored]
    ELSE LET neighbor == neighborhood[i]
         IN  IF IsSome(neighbor[1]) /\ IsSome(neighbor[2])
             THEN LET ng == <<neighbor[1][1], neighbor[2][1]>>
                  IN  IF ng \in self.mines_at
                      THEN ScanNeighbors(self, neighborhood, i + 1, mined + 1, unexplored)
                      ELSE IF mined = 0 /\ ng \notin self.clear
                      THEN ScanNeighbors(self, neighborhood, i + 1, mined,
                                         Append(unexplored, ng))
                      ELSE ScanNeighbors(self, neighborhood, i + 1, mined, unexplored)
             ELSE ScanNeighbors(self, neighborhood, i + 1, mined, unexplored)

\* Seq -> the set of its elements.
Range(s) == {s[i] : i \in 1..Len(s)}

\* The empty-frontier test reporting the win with one safe cell still
\* unexplored.
ExploreEmpty_OneShort(self) ==
    IF self.area - Cardinality(self.clear) <= Cardinality(self.mines_at) + 1
    THEN [ret |-> "BoardClear", self |-> self]
    ELSE [ret |-> "EmptyCache", self |-> self]

\* The empty-frontier test counting the flags instead of the mines.
ExploreEmpty_CountsFlags(self) ==
    IF self.area - Cardinality(self.clear) = Cardinality(self.flagged)
    THEN [ret |-> "BoardClear", self |-> self]
    ELSE [ret |-> "EmptyCache", self |-> self]

\* Board::explore when the frontier is empty.
ExploreEmpty(self) ==
    IF self.area - Cardinality(self.clear) = Cardinality(self.mines_at)
    THEN [ret |-> "BoardClear", self |-> self]
    ELSE [ret |-> "EmptyCache", self |-> self]

\* Board::explore inserting the cell into clear before it tests for a mine.
ExploreCell_InsertFirst(self, next) ==
    LET row == next[1]
        col == next[2]
        cleared == [self EXCEPT !.cached = self.cached \ {next},
                                !.clear = self.clear \cup {next}]
    IN  IF next \in cleared.mines_at
        THEN [ret |-> "Mined", self |-> reveal_mines(cleared)]
        ELSE LET scan == ScanNeighbors(cleared, Neighborhood(cleared, row, col),
                                       1, 0, <<>>)
             IN  IF scan.mined > 0
                 THEN [ret |-> "Ok",
                       self |-> update_label(cleared, next,
                                             <<"MinedNeighbors", scan.mined>>,
                                             FALSE, FALSE).self]
                 ELSE LET labelled == update_label(cleared, next, <<"Clear">>,
                                                   FALSE, FALSE).self
                      IN  [ret |-> "Ok",
                           self |-> [labelled EXCEPT !.cached =
                                        labelled.cached \cup Range(scan.unexplored)]]

\* Board::explore replacing the frontier by the neighbors it pushed.
ExploreCell_ReplacesFrontier(self, next) ==
    LET row == next[1]
        col == next[2]
        popped == [self EXCEPT !.cached = self.cached \ {next}]
    IN  IF next \in popped.mines_at
        THEN [ret |-> "Mined", self |-> reveal_mines(popped)]
        ELSE LET cleared == [popped EXCEPT !.clear = popped.clear \cup {next}]
                 scan == ScanNeighbors(cleared, Neighborhood(cleared, row, col),
                                       1, 0, <<>>)
             IN  IF scan.mined > 0
                 THEN [ret |-> "Ok",
                       self |-> update_label(cleared, next,
                                             <<"MinedNeighbors", scan.mined>>,
                                             FALSE, FALSE).self]
                 ELSE LET labelled == update_label(cleared, next, <<"Clear">>,
                                                   FALSE, FALSE).self
                      IN  [ret |-> "Ok",
                           self |-> [labelled EXCEPT !.cached =
                                        Range(scan.unexplored)]]

\* Board::explore caching the neighbors it pushed before it met a mine
\* also when the cell has a mined neighbor.
ExploreCell_FloodsPastDigits(self, next) ==
    LET row == next[1]
        col == next[2]
        popped == [self EXCEPT !.cached = self.cached \ {next}]
    IN  IF next \in popped.mines_at
        THEN [ret |-> "Mined", self |-> reveal_mines(popped)]
        ELSE LET cleared == [popped EXCEPT !.clear = popped.clear \cup {next}]
                 scan == ScanNeighbors(cleared, Neighborhood(cleared, row, col),
                                       1, 0, <<>>)
                 labelled ==
                    IF scan.mined > 0
                    THEN update_label(cleared, next,
                                      <<"MinedNeighbors", scan.mined>>,
                                      FALSE, FALSE).self
                    ELSE update_label(cleared, next, <<"Clear">>,
                                      FALSE, FALSE).self
             IN  [ret |-> "Ok",
                  self |-> [labelled EXCEPT !.cached =
                               labelled.cached \cup Range(scan.unexplored)]]

\* Board::explore when cached.iter().next() yields `next'.
ExploreCell(self, next) ==
    LET row == next[1]
        col == next[2]
        popped == [self EXCEPT !.cached = self.cached \ {next}]
    IN  IF next \in popped.mines_at
        THEN [ret |-> "Mined", self |-> reveal_mines(popped)]
        ELSE LET cleared == [popped EXCEPT !.clear = popped.clear \cup {next}]
                 scan == ScanNeighbors(cleared, Neighborhood(cleared, row, col),
                                       1, 0, <<>>)
             IN  IF scan.mined > 0
                 THEN [ret |-> "Ok",
                       self |-> update_label(cleared, next,
                                             <<"MinedNeighbors", scan.mined>>,
                                             FALSE, FALSE).self]
                 ELSE LET labelled == update_label(cleared, next, <<"Clear">>,
                                                   FALSE, FALSE).self
                      IN  [ret |-> "Ok",
                           self |-> [labelled EXCEPT !.cached =
                                        labelled.cached \cup Range(scan.unexplored)]]

\* HashSet::iter().next(): None on an empty set; otherwise Some element,
\* whichever the hasher's per-process random keys put first.
IterNext(set) == IF set = {} THEN {None} ELSE {Some(c) : c \in set}

\* Board::explore, `first' being what self.cached.iter().next() yields.
explore(self, first) ==
    IF self.cached = {} THEN ExploreEmpty(self) ELSE ExploreCell(self, first[1])

----------------------------------------------------------------------------
\* The state machine.

NoCall == [op |-> "none", at |-> <<0, 0>>, n |-> 0]

Init ==
    /\ rows = 0 /\ cols = 0 /\ area = 0
    /\ flagged = {} /\ cached = {} /\ clear = {} /\ mines_at = {}
    /\ board_string = <<>>
    /\ labels = <<>>
    /\ hasBoard = FALSE
    /\ overflow_checks \in BOOLEAN
    /\ panicked = FALSE
    /\ call = NoCall
    /\ ret = "none"

\* The board's fields become those of the value b.
Store(b) ==
    /\ rows' = b.rows /\ cols' = b.cols /\ area' = b.area
    /\ flagged' = b.flagged /\ cached' = b.cached /\ clear' = b.clear
    /\ mines_at' = b.mines_at
    /\ board_string' = b.board_string
    /\ labels' = b.labels

\* A call returns r, or panics.
Return(r) ==
    /\ ret' = r
    /\ panicked' = (r = "panic")

\* The coordinates a caller passes, 1-based as the user types them: every
\* cell of the board, and row/column 0 and one past the last on each side.
UserCoords == (0..(rows + 1)) \X (0..(cols + 1))

\* let board = Board::new(rows, cols, mine_count)
Construct ==
    /\ ~hasBoard /\ ~panicked
    /\ \E nrows \in 0..MaxRows, ncols \in 0..MaxCols, mine_count \in 0..MaxMineCount :
         /\ nrows * ncols <= MaxArea
         /\ \E draws \in [1..(IF 0 < nrows * ncols /\ mine_count < nrows * ncols
                              THEN mine_count ELSE 0)
                          -> 0..(nrows * ncols - 1)] :
              LET r == new(nrows, ncols, mine_count, draws)
              IN  /\ Store(r.self)
                  /\ hasBoard' = (r.ret = "Ok")
                  /\ call' = [op |-> "new", at |-> <<nrows, ncols>>, n |-> mine_count]
                  /\ Return(r.ret)
    /\ UNCHANGED overflow_checks

\* board.cache(coord), for any coordinate the caller may pass: one step for
\* each outcome the call can have.
Cache ==
    /\ hasBoard /\ ~panicked
    /\ \E r \in {cache(Self, coord, overflow_checks) : coord \in UserCoords} :
         /\ Store(r.self)
         /\ call' = [op |-> "cache", at |-> <<0, 0>>, n |-> 0]
         /\ Return(r.ret)
    /\ UNCHANGED <<hasBoard, overflow_checks>>

\* board.explore()
Explore ==
    /\ hasBoard /\ ~panicked
    /\ \E first \in IterNext(cached) :
         LET r == explore(Self, first)
         IN  /\ Store(r.self)
             /\ call' = [op |-> "explore", at |-> <<0, 0>>, n |-> 0]
             /\ Return(r.ret)
    /\ UNCHANGED <<hasBoard, overflow_checks>>

\* board.update_label(coord, CellLabel::Flag, true)
ToggleFlag ==
    /\ hasBoard /\ ~panicked
    /\ \E r \in {update_label(Self, coord, <<"Flag">>, TRUE, overflow_checks) :
                    coord \in UserCoords} :
         /\ Store(r.self)
         /\ call' = [op |-> "flag", at |-> <<0, 0>>, n |-> 0]
         /\ Return(r.ret)
    /\ UNCHANGED <<hasBoard, overflow_checks>>

Next == Construct \/ Cache \/ Explore \/ ToggleFlag

Spec == Init /\ [][Next]_vars

----------------------------------------------------------------------------
\* The calls made while no explore has returned Mined: the same calls, but
\* for the explore that takes a mine from the frontier.

\* board.explore() returning anything but Mined.
ExploreUnmined == Explore /\ ret' # "Mined"

UnminedNext == Construct \/ Cache \/ ExploreUnmined \/ ToggleFlag

SpecUnmined == Init /\ [][UnminedNext]_vars

----------------------------------------------------------------------------
\* The flood fill on larger boards, driven the way the caller drives it: one
\* coordinate is enqueued, then explore is called in a loop.

\* Bounds: the longest side of a board, the largest area, the largest
\* requested mine count.
FloodSide == 5
FloodArea == 9
FloodMineCount == 2

\* The (rows, cols, mine_count) arguments Board::new accepts within the bounds.
FloodArgs ==
    {a \in (1..FloodSide) \X (1..FloodSide) \X (0..FloodMineCount) :
        a[1] * a[2] <= FloodArea /\ a[3] < a[1] * a[2]}

\* The state after Board::new(rows, cols, mine_count) returned Ok(board).
FloodInit ==
    /\ \E a \in FloodArgs :
         \E draws \in [1..a[3] -> 0..(a[1] * a[2] - 1)] :
            LET r == new(a[1], a[2], a[3], draws)
            IN  /\ rows = r.self.rows /\ cols = r.self.cols /\ area = r.self.area
                /\ flagged = r.self.flagged /\ cached = r.self.cached
                /\ clear = r.self.clear /\ mines_at = r.self.mines_at
                /\ board_string = r.self.board_string
                /\ labels = r.self.labels
                /\ call = [op |-> "new", at |-> <<a[1], a[2]>>, n |-> a[3]]
                /\ ret = r.ret
    /\ hasBoard = TRUE
    /\ overflow_checks \in BOOLEAN
    /\ panicked = FALSE

\* The caller's loop is running: a coordinate was enqueued, or explore
\* returned something other than EmptyCache and BoardClear.
Draining ==
    \/ call.op = "cache" /\ ret = "Ok"
    \/ call.op = "explore" /\ ret \in {"Ok", "Mined"}

\* The caller enqueues a coordinate; it does so between its loops.
Enqueue == ~Draining /\ Cache

\* One turn of `loop { match board.explore() { ... } }', which goes on after
\* Mined as the loop of tests::test_explore does.
Drain == Draining /\ Explore

FloodNext == Enqueue \/ Drain

SpecFlood == FloodInit /\ [][FloodNext]_vars

----------------------------------------------------------------------------
\* The draft of the board in src/src/main.rs and the command loop that
\* drives it. The draft's fields are kept in the same variables: unexplored
\* in cached, explored in clear, and the flag counter in flagged.

DraftSelf ==
    [rows |-> rows, cols |-> cols, area |-> area, flagged |-> flagged,
     unexplored |-> cached, explored |-> clear, mines_at |-> mines_at,
     board_string |-> board_string, labels |-> labels]

\* main.rs Board::new, once its two argument checks have passed.
main_new(nrows, ncols, mine_count, draws) ==
    LET text == BlankBoardString(nrows, ncols)
    IN  [rows |-> nrows, cols |-> ncols, area |-> nrows * ncols,
         flagged |-> 0, unexplored |-> {}, explored |-> {},
         mines_at |-> {<<draws[i] \div ncols, draws[i] % ncols>> :
                          i \in 1..mine_count},
         board_string |-> text,
         labels |-> BuildLabels(text, ncols)]

\* main.rs Board::add_to_unexplored, with a 0-based coordinate.
add_to_unexplored(self, coord) ==
    IF coord[1] * self.cols + coord[2] < self.area
    THEN [ret |-> "true",
          self |-> [self EXCEPT !.unexplored = self.unexplored \cup {coord}]]
    ELSE [ret |-> "false", self |-> self]

\* main.rs Board::update_label: labels.get(&at).unwrap() panics when the
\* map has no entry for `at'.
main_update_label(self, at, label) ==
    IF at \in DOMAIN self.labels
    THEN [ret |-> "unit",
          self |-> [self EXCEPT !.board_string =
                        ReplaceRange(self.board_string, self.labels[at], label)]]
    ELSE [ret |-> "panic", self |-> self]

\* main.rs Board::all_mines_located.
all_mines_located(self) ==
    self.area - Cardinality(self.explored) = Cardinality(self.mines_at)

\* main.rs Board::toggle_flag_at, with a 0-based coordinate.
toggle_flag_at(self, at) ==
    IF at \in DOMAIN self.labels
    THEN IF at \notin self.explored
         THEN IF self.board_string[self.labels[at] + 1] = ">"
              THEN [ret |-> "true",
                    self |-> main_update_label(
                                [self EXCEPT !.flagged = self.flagged - 1],
                                at, ".").self]
              ELSE [ret |-> "true",
                    self |-> main_update_label(
                                [self EXCEPT !.flagged = self.flagged + 1],
                                at, ">").self]
         ELSE [ret |-> "true", self |-> self]
    ELSE [ret |-> "false", self |-> self]

\* The array of adjacent coordinates of main.rs Board::explore.
main_Neighbourhood(self, row, col) ==
    LET above == IF row = 0 THEN None ELSE Some(row - 1)
        below == IF row < self.rows - 1 THEN Some(row + 1) ELSE None
        left  == IF col = 0 THEN None ELSE Some(col - 1)
        right == IF col < self.cols - 1 THEN Some(col + 1) ELSE None
    IN  << <<above, left>>,     <<above, Some(col)>>, <<above, right>>,
           <<Some(row), left>>,                       <<Some(row), right>>,
           <<below, left>>,     <<below, Some(col)>>, <<below, right>> >>

\* main.rs Board::explore, `first' being what unexplored.iter().next()
\* yields.
main_explore(self, first) ==
    IF self.unexplored = {} THEN [ret |-> "EmptyCache", self |-> self]
    ELSE
    LET row == first[1][1]
        col == first[1][2]
        popped == [self EXCEPT !.unexplored = self.unexplored \ {<<row, col>>}]
    IN  IF <<row, col>> \in popped.explored
        THEN [ret |-> "EmptyCache", self |-> popped]
        ELSE
        LET inserted == [popped EXCEPT !.explored = popped.explored \cup {<<row, col>>}]
        IN  IF <<row, col>> \in inserted.mines_at
            THEN [ret |-> "Mined", self |-> reveal_mines(inserted)]
            ELSE
            LET adjacent == main_Neighbourhood(inserted, row, col)
                neighbours ==
                    {<<adjacent[i][1][1], adjacent[i][2][1]>> :
                        i \in {j \in 1..Len(adjacent) :
                                 /\ IsSome(adjacent[j][1]) /\ IsSome(adjacent[j][2])
                                 /\ <<adjacent[j][1][1], adjacent[j][2][1]>>
                                       \notin inserted.explored
                                 /\ <<adjacent[j][1][1], adjacent[j][2][1]>>
                                       \notin inserted.unexplored}}
                mine_count == Cardinality(neighbours \cap inserted.mines_at)
            IN  IF mine_count > 0
                THEN LET u == main_update_label(inserted, <<row, col>>,
                                                to_string(mine_count)[1])
                     IN  IF u.ret = "panic" THEN u
                         ELSE [ret |-> "MinedNeighbourhood", self |-> u.self]
                ELSE LET u == main_update_label(inserted, <<row, col>>, " ")
                     IN  IF u.ret = "panic" THEN u
                         ELSE [ret |-> "Clear",
                               self |-> [u.self EXCEPT !.unexplored =
                                            u.self.unexplored \cup neighbours]]

\* The draft's fields become those of the value b.
DraftStore(b) ==
    /\ rows' = b.rows /\ cols' = b.cols /\ area' = b.area
    /\ flagged' = b.flagged /\ cached' = b.unexplored /\ clear' = b.explored
    /\ mines_at' = b.mines_at
    /\ board_string' = b.board_string
    /\ labels' = b.labels

\* The state after main.rs Board::new(rows, cols, mine_count) returned
\* Ok(board).
DraftInit ==
    /\ \E nrows \in 1..MaxRows, ncols \in 1..MaxCols, mine_count \in 0..MaxMineCount :
         /\ nrows * ncols <= MaxArea
         /\ mine_count < nrows * ncols
         /\ \E draws \in [1..mine_count -> 0..(nrows * ncols - 1)] :
              LET b == main_new(nrows, ncols, mine_count, draws)
              IN  /\ rows = b.rows /\ cols = b.cols /\ area = b.area
                  /\ flagged = b.flagged /\ cached = b.unexplored
                  /\ clear = b.explored /\ mines_at = b.mines_at
                  /\ board_string = b.board_string
                  /\ labels = b.labels
                  /\ call = [op |-> "new", at |-> <<nrows, ncols>>, n |-> mine_count]
    /\ ret = "Ok"
    /\ hasBoard = TRUE
    /\ overflow_checks \in BOOLEAN
    /\ panicked = FALSE

\* The 0-based coordinates the command loop passes: the cells of the board,
\* the row after the last and the two columns after the last.
DraftCoords == (0..rows) \X (0..(cols + 1))

\* The loop of the 'x' command is running: a coordinate was added, or
\* explore returned something other than EmptyCache.
InDrainLoop ==
    \/ call.op = "add_to_unexplored" /\ ret = "true"
    \/ call.op = "explore" /\ ret # "EmptyCache"

\* The 'x' command: board.add_to_unexplored(coord).
AddToUnexplored ==
    /\ ~panicked /\ ~InDrainLoop
    /\ \E r \in {add_to_unexplored(DraftSelf, coord) : coord \in DraftCoords} :
         /\ DraftStore(r.self)
         /\ call' = [op |-> "add_to_unexplored", at |-> <<0, 0>>, n |-> 0]
         /\ Return(r.ret)
    /\ UNCHANGED <<hasBoard, overflow_checks>>

\* One turn of the loop of the 'x' command, which goes on after Mined as
\* the loop of tests::test_explore does: board.explore().
DraftExplore ==
    /\ ~panicked /\ InDrainLoop
    /\ \E first \in IterNext(cached) :
         LET r == main_explore(DraftSelf, first)
         IN  /\ DraftStore(r.self)
             /\ call' = [op |-> "explore", at |-> <<0, 0>>, n |-> 0]
             /\ Return(r.ret)
    /\ UNCHANGED <<hasBoard, overflow_checks>>

\* The 'f' command: board.toggle_flag_at(coord).
ToggleFlagAt ==
    /\ ~panicked /\ ~InDrainLoop
    /\ \E r \in {toggle_flag_at(DraftSelf, coord) : coord \in DraftCoords} :
         /\ DraftStore(r.self)
         /\ call' = [op |-> "toggle_flag_at", at |-> <<0, 0>>, n |-> 0]
         /\ Return(r.ret)
    /\ UNCHANGED <<hasBoard, overflow_checks>>

DraftNext == AddToUnexplored \/ DraftExplore \/ ToggleFlagAt

SpecDraft == DraftInit /\ [][DraftNext]_vars

\* The loop of the 'x' command calls explore again until it breaks.
FairSpecDraft == SpecDraft /\ WF_vars(DraftExplore)

----------------------------------------------------------------------------
\* What the claims speak of.

\* The 0-based coordinate a 1-based user coordinate stands for.
Internal(coord) == <<coord[1] - 1, coord[2] - 1>>

\* The user coordinates of the board's cells, and those outside the board.
OnBoard(coord) ==
    /\ 1 <= coord[1] /\ coord[1] <= rows
    /\ 1 <= coord[2] /\ coord[2] <= cols

\* The character the render text shows for a cell.
LabelOf(b, at) == b.board_string[b.labels[at] + 1]

FlagToggle(b, coord) == update_label(b, coord, <<"Flag">>, TRUE, overflow_checks)

\* The caller's drain loop, `loop { match board.explore() ... }': every
\* outcome it can have from board b, as the signals returned so far followed
\* by those of the loop, and the render text when the loop ends. The loop
\* ends on EmptyCache, BoardClear and Mined.
RECURSIVE DrainOutcomes(_, _)
DrainOutcomes(b, signals) ==
    UNION { LET r == explore(b, first)
            IN  IF r.ret = "Ok"
                THEN DrainOutcomes(r.self, Append(signals, r.ret))
                ELSE {[signals |-> Append(signals, r.ret),
                       text |-> r.self.board_string]}
            : first \in IterNext(b.cached) }

\* C1: cache called with any coordinate outside the board (a row or column
\* of 0, or beyond the last row or column) returns InvalidCoordinate, does
\* not abort, and leaves the board unchanged.
C1_OutOfRangeRejected ==
    /\ call.op = "cache" => ~panicked
    /\ hasBoard /\ ~panicked =>
         \A coord \in UserCoords :
            ~OnBoard(coord) =>
                LET r == cache(Self, coord, overflow_checks)
                IN  r.ret = "InvalidCoordinate" /\ r.self = Self

\* C2 as stated: explored and mines_at are disjoint, except right after an
\* explore that returned Mined, when they share exactly one coordinate.
C2_MinedCellExplored ==
    hasBoard =>
        IF call.op = "explore" /\ ret = "Mined"
        THEN Cardinality(clear \cap mines_at) = 1
        ELSE clear \cap mines_at = {}

\* C2 as amended: explored and mines_at are disjoint in every reachable
\* state, the state right after an explore that returned Mined included:
\* the mined coordinate leaves the frontier and does not enter explored.
C2_ExploredNeverMined ==
    /\ clear \cap mines_at = {}
    /\ hasBoard /\ ~panicked =>
         \A first \in IterNext(cached) :
            LET r == explore(Self, first)
            IN  r.ret = "Mined" =>
                    /\ first[1] \in mines_at
                    /\ first[1] \notin r.self.cached
                    /\ r.self.clear = clear

\* C2's case: an explore has just returned Mined.
C2_Witness == call.op = "explore" /\ ret = "Mined" /\ clear # {}

\* C3: no coordinate is both explored and flagged, and toggling the flag of
\* an explored cell returns true and changes neither flagged nor its label.
C3_ExploredNeverFlagged ==
    /\ clear \cap flagged = {}
    /\ hasBoard /\ ~panicked =>
         \A coord \in UserCoords :
            OnBoard(coord) /\ Internal(coord) \in clear =>
                LET r == FlagToggle(Self, coord)
                IN  /\ r.ret = "true"
                    /\ r.self.flagged = flagged
                    /\ LabelOf(r.self, Internal(coord)) = LabelOf(Self, Internal(coord))

\* C4: there are never more flags than mines, and toggling an unflagged
\* cell when there are as many flags as mines changes no flag and no label.
C4_FlagCap ==
    /\ Cardinality(flagged) <= Cardinality(mines_at)
    /\ hasBoard /\ ~panicked /\ Cardinality(flagged) = Cardinality(mines_at) =>
         \A coord \in UserCoords :
            OnBoard(coord) /\ Internal(coord) \notin flagged =>
                LET r == FlagToggle(Self, coord)
                IN  /\ r.self.flagged = flagged
                    /\ r.self.board_string = board_string

\* C4's case: flags were toggled until there are as many as mines.
C4_Witness ==
    /\ call.op = "flag" /\ ret = "true"
    /\ Cardinality(mines_at) = 2
    /\ Cardinality(flagged) = Cardinality(mines_at)

\* C5: draining explore gives one sequence of signals and one final render
\* text, whichever element of the frontier each explore removes.
C5_Deterministic ==
    hasBoard /\ ~panicked => Cardinality(DrainOutcomes(Self, <<>>)) = 1

\* C6: explore on an empty frontier returns BoardClear iff
\* area - |explored| = |mines_at| and EmptyCache otherwise, changing nothing
\* in both cases; on a non-empty frontier it returns neither.
C6_EmptyFrontierResult ==
    /\ call.op = "explore" /\ ret \in {"BoardClear", "EmptyCache"} =>
         /\ cached = {}
         /\ ret = "BoardClear" <=> area - Cardinality(clear) = Cardinality(mines_at)
    /\ hasBoard /\ ~panicked =>
         \A first \in IterNext(cached) :
            LET r == explore(Self, first)
            IN  IF cached = {}
                THEN /\ r.self = Self
                     /\ r.ret \in {"BoardClear", "EmptyCache"}
                     /\ r.ret = "BoardClear" <=>
                            area - Cardinality(clear) = Cardinality(mines_at)
                ELSE r.ret \notin {"BoardClear", "EmptyCache"}

\* C6's case: explore found the frontier empty with every cell but the
\* mines explored.
C6_Witness ==
    /\ call.op = "explore" /\ ret = "BoardClear"
    /\ mines_at # {} /\ Cardinality(clear) > 1

\* C7: Board::new returns NullArea whenever rows * cols = 0, whatever the
\* mine count; TooManyMines whenever rows * cols > 0 and the mine count is
\* at least rows * cols; a board otherwise; and no board with an error.
C7_ConstructErrors ==
    call.op = "new" =>
        LET board_area == call.at[1] * call.at[2]
        IN  /\ board_area = 0 => ret = "NullArea"
            /\ board_area > 0 /\ call.n >= board_area => ret = "TooManyMines"
            /\ board_area > 0 /\ call.n < board_area =>
                 ret = "Ok" /\ hasBoard /\ rows = call.at[1] /\ cols = call.at[2]
            /\ ret # "Ok" => ~hasBoard /\ Self = NoBoard

\* C7's case: zero area and a mine count that is also too large.
C7_Witness == call.op = "new" /\ ret = "NullArea" /\ call.n > 0

\* C8: a board just built has at most mine_count mines and fewer than area,
\* all of them on the board, and empty frontier, explored and flagged sets.
C8_RealizedMines ==
    call.op = "new" /\ ret = "Ok" =>
        /\ Cardinality(mines_at) <= call.n
        /\ Cardinality(mines_at) < area
        /\ area = rows * cols
        /\ \A m \in mines_at : m[1] < rows /\ m[2] < cols
        /\ cached = {} /\ clear = {} /\ flagged = {}

\* C8's case: two draws fell on the same cell.
C8_Witness ==
    call.op = "new" /\ ret = "Ok" /\ Cardinality(mines_at) < call.n

\* C9: toggling the flag of a cell that is neither explored nor flagged
\* twice in a row restores its label and the number of flags.
C9_ToggleTwiceRestores ==
    hasBoard /\ ~panicked =>
        \A coord \in UserCoords :
            (/\ OnBoard(coord)
             /\ Internal(coord) \notin clear
             /\ Internal(coord) \notin flagged) =>
                LET once  == FlagToggle(Self, coord).self
                    twice == FlagToggle(once, coord).self
                IN  /\ LabelOf(twice, Internal(coord)) = LabelOf(Self, Internal(coord))
                    /\ Cardinality(twice.flagged) = Cardinality(flagged)

\* C10: frontier and explored are disjoint between calls; explore takes the
\* cell it processes out of the frontier.
C10_FrontierExploredDisjoint ==
    /\ cached \cap clear = {}
    /\ hasBoard /\ ~panicked =>
         \A first \in IterNext(cached) :
            cached # {} => first[1] \notin explore(Self, first).self.cached

\* C10's case: an explore revealed a cell and queued neighbours of it.
C10_Witness ==
    /\ call.op = "explore" /\ ret = "Ok"
    /\ cached # {} /\ clear # {}

\* Whether text t is text s but for the characters at the given positions.
SameBut(s, t, positions) ==
    /\ Len(t) = Len(s)
    /\ t = [i \in 1..Len(s) |-> IF i \in positions THEN t[i] ELSE s[i]]

\* The position of a cell's character in the render text.
PositionOf(b, at) == b.labels[at] + 1

\* C11: cache of a coordinate on the board returns Clear and changes nothing
\* when the coordinate is explored; otherwise it returns Ok and the only
\* change is that the coordinate is in the frontier.
C11_EnqueueEffect ==
    [](
        hasBoard /\ ~panicked =>
            \A coord \in UserCoords :
                OnBoard(coord) =>
                    LET r == cache(Self, coord, overflow_checks)
                    IN  IF Internal(coord) \in clear
                        THEN r.ret = "Clear" /\ r.self = Self
                        ELSE /\ r.ret = "Ok"
                             /\ r.self.cached = cached \cup {Internal(coord)}
                             /\ r.self = [Self EXCEPT !.cached = r.self.cached]
      )

\* C11's case: an explored coordinate was enqueued again and refused.
C11_Witness ==
    /\ call.op = "cache" /\ ret = "Clear"
    /\ cached # {}

\* C12: toggling a flag returns false exactly for the coordinates outside
\* the board, then changing nothing and not aborting, and true for every
\* coordinate on the board.
C12_ToggleFlagResult ==
    /\ call.op = "flag" => ~panicked
    /\ hasBoard /\ ~panicked =>
         \A coord \in UserCoords :
            LET r == FlagToggle(Self, coord)
            IN  IF OnBoard(coord)
                THEN r.ret = "true"
                ELSE r.ret = "false" /\ r.self = Self

\* C16: an explore that takes a mined coordinate from the frontier returns
\* Mined, sets the label of every mined cell to '*' and of no other cell,
\* takes the coordinate out of the frontier and changes nothing else.
C16_MinedFrame ==
    [](
        /\ call.op = "explore" /\ ret = "Mined" =>
             \A m \in mines_at : LabelOf(Self, m) = "*"
        /\ hasBoard /\ ~panicked =>
             \A first \in IterNext(cached) :
                (cached # {} /\ first[1] \in mines_at) =>
                    LET r == explore(Self, first)
                    IN  /\ r.ret = "Mined"
                        /\ r.self.cached = cached \ {first[1]}
                        /\ r.self.clear = clear
                        /\ r.self.flagged = flagged
                        /\ \A at \in DOMAIN labels :
                             LabelOf(r.self, at) =
                                IF at \in mines_at THEN "*" ELSE LabelOf(Self, at)
                        /\ r.self = [Self EXCEPT !.cached = r.self.cached,
                                                 !.board_string = r.self.board_string]
      )

\* C16's case: a mine was explored while a cell was flagged, one explored
\* and another still queued.
C16_Witness ==
    /\ call.op = "explore" /\ ret = "Mined"
    /\ flagged # {} /\ clear # {} /\ cached # {}

\* C18: no call takes a coordinate out of explored, changes mines_at, or
\* puts an explored coordinate into the frontier.
C18_ExploredGrows ==
    [][hasBoard =>
          /\ clear \subseteq clear'
          /\ mines_at' = mines_at
          /\ clear \cap cached' = {}]_vars

\* C18's case: two cells are explored and one of them was enqueued again.
C18_Witness ==
    /\ call.op = "cache" /\ ret = "Clear"
    /\ Cardinality(clear) >= 2 /\ mines_at # {}

\* C19: the render text keeps the length it was built with and the labels
\* map stays the one-to-one map of the rows * cols cells to the positions of
\* the template's dots; a label written for a coordinate changes the
\* character at that coordinate's position and no other, and revealing the
\* mines changes the characters of the mined cells and no other.
C19_RenderFixed ==
    [](
        hasBoard /\ ~panicked =>
            LET blank == BlankBoardString(rows, cols)
                positions == {PositionOf(Self, at) : at \in DOMAIN labels}
            IN  /\ DOMAIN labels = (0..(rows - 1)) \X (0..(cols - 1))
                /\ Cardinality(positions) = rows * cols
                /\ Len(board_string) = Len(blank)
                /\ \A i \in 1..Len(blank) :
                      IF i \in positions
                      THEN /\ blank[i] = "."
                           /\ board_string[i] \in
                                {".", ">", "*", " ", "1", "2", "3", "4", "5", "6", "7", "8"}
                      ELSE board_string[i] = blank[i]
                /\ \A coord \in UserCoords :
                      LET r == FlagToggle(Self, coord).self
                      IN  /\ r.labels = labels
                          /\ SameBut(board_string, r.board_string,
                                     IF OnBoard(coord)
                                     THEN {PositionOf(Self, Internal(coord))} ELSE {})
                /\ \A first \in IterNext(cached) :
                      LET r == explore(Self, first)
                      IN  /\ r.self.labels = labels
                          /\ SameBut(board_string, r.self.board_string,
                                     CASE r.ret = "Ok" -> {PositionOf(Self, first[1])}
                                       [] r.ret = "Mined" ->
                                             {PositionOf(Self, m) : m \in mines_at}
                                       [] OTHER -> {})
                          /\ r.ret = "Ok" => r.self.board_string # board_string
      )

\* C19's case: the text shows a flag, a digit and a revealed mine at once.
C19_Witness ==
    /\ hasBoard
    /\ \E a, b, c \in DOMAIN labels :
          LabelOf(Self, a) = ">" /\ LabelOf(Self, b) = "1" /\ LabelOf(Self, c) = "*"

\* The cells at Chebyshev distance 1 of cell c that lie on the board.
Adjacent(c) ==
    {d \in (0..(rows - 1)) \X (0..(cols - 1)) :
        /\ d # c
        /\ d[1] - c[1] \in {-1, 0, 1}
        /\ d[2] - c[2] \in {-1, 0, 1}}

\* The 1x5 board whose one mine is in column 4, as Board::new returns it.
IsLineBoard ==
    /\ rows = 1 /\ cols = 5 /\ mines_at = {<<0, 4>>}

\* C13: explore puts no mined coordinate into the frontier, and from a
\* frontier that holds no mine it does not return Mined and leaves a frontier
\* that holds none; on the fresh 1x5 board with its mine in column 4,
\* enqueuing column 0 and draining ends with columns 0-3 showing blank,
\* blank, blank, '1' and column 4 still hidden (four calls return Ok and the
\* fifth, finding the frontier empty and every other cell explored,
\* BoardClear).
C13_NoMineEnqueued ==
    /\ [][call'.op = "explore" =>
            /\ (cached' \cap mines_at) \subseteq cached
            /\ (cached \cap mines_at = {}) => ret' # "Mined"]_vars
    /\ [](IsLineBoard /\ call.op = "new" =>
            LET r == cache(Self, <<1, 1>>, overflow_checks)
            IN  /\ r.ret = "Ok"
                /\ \A o \in DrainOutcomes(r.self, <<>>) :
                     /\ o.signals = <<"Ok", "Ok", "Ok", "Ok", "BoardClear">>
                     /\ [col \in 0..4 |-> o.text[labels[<<0, col>>] + 1]]
                          = [col \in 0..4 |->
                                CASE col = 3 -> "1" [] col = 4 -> "." [] OTHER -> " "])

\* C13's case: on that board the drain that began at column 0 has ended.
C13_Witness ==
    /\ IsLineBoard
    /\ call.op = "explore" /\ ret = "BoardClear"
    /\ clear = {<<0, 0>>, <<0, 1>>, <<0, 2>>, <<0, 3>>}
    /\ LabelOf(Self, <<0, 3>>) = "1" /\ LabelOf(Self, <<0, 4>>) = "."

\* C14: explore of a cell that is not mined and has k >= 1 mined cells
\* among its neighbours on the board returns Ok, shows the digit k for the
\* cell, adds the cell to explored, and leaves the frontier as it was less
\* that cell.
C14_DigitLabel ==
    hasBoard /\ ~panicked =>
        \A first \in IterNext(cached) :
            (cached # {} /\ first[1] \notin mines_at
                /\ Adjacent(first[1]) \cap mines_at # {}) =>
                LET c == first[1]
                    k == Cardinality(Adjacent(c) \cap mines_at)
                    r == explore(Self, first)
                IN  /\ r.ret = "Ok"
                    /\ k \in 1..8
                    /\ LabelOf(r.self, c) = DigitChars[k + 1]
                    /\ r.self.clear = clear \cup {c}
                    /\ r.self.cached = cached \ {c}

\* C14's case: a cell between two mines on a one-row board shows '2', and
\* so did a cell of a board of several rows.
C14_Witness ==
    /\ call.op = "explore" /\ ret = "Ok"
    /\ rows = 1
    /\ \E c \in clear : LabelOf(Self, c) = "2" /\ Cardinality(Adjacent(c)) = 2

\* C15: explore of a cell that is not mined and has no mined cell among its
\* neighbours on the board returns Ok, shows blank for the cell, adds the
\* cell to explored, and leaves the frontier as it was less that cell,
\* united with the cell's neighbours on the board that are not explored.
C15_BlankFloods ==
    hasBoard /\ ~panicked =>
        \A first \in IterNext(cached) :
            (cached # {} /\ first[1] \notin mines_at
                /\ Adjacent(first[1]) \cap mines_at = {}) =>
                LET c == first[1]
                    r == explore(Self, first)
                IN  /\ r.ret = "Ok"
                    /\ LabelOf(r.self, c) = " "
                    /\ r.self.clear = clear \cup {c}
                    /\ r.self.cached =
                          (cached \ {c}) \cup (Adjacent(c) \ (clear \cup {c}))

\* C15's case: a cell with eight neighbours was explored while other cells
\* were explored and queued, and its unexplored neighbours joined the queue.
C15_Witness ==
    /\ call.op = "explore" /\ ret = "Ok"
    /\ \E c \in clear :
          /\ LabelOf(Self, c) = " "
          /\ Cardinality(Adjacent(c)) = 8
          /\ Adjacent(c) \cap clear # {}
          /\ Adjacent(c) \cap cached # {}

\* C17: once the caller's loop has begun, the calls of explore it makes,
\* with no coordinate enqueued in between, come to one that returns
\* EmptyCache (or BoardClear, which only the board of game.rs returns), also
\* when the loop goes on after Mined.
C17_DrainTerminates ==
    InDrainLoop ~> (call.op = "explore" /\ ret \in {"EmptyCache", "BoardClear"})

\* C20: the draft's add_to_unexplored returns false and leaves unexplored
\* as it is for every coordinate whose row is not below rows or whose column
\* is not below cols, so that unexplored holds only coordinates that have an
\* entry in labels and explore does not abort.
C20_DraftRejectsOutOfRange ==
    /\ ~panicked
    /\ cached \subseteq DOMAIN labels
    /\ \A coord \in DraftCoords :
          (coord[1] >= rows \/ coord[2] >= cols) =>
              LET r == add_to_unexplored(DraftSelf, coord)
              IN  r.ret = "false" /\ r.self.unexplored = cached

\* The caller's drain loop from each board of `running', whichever element
\* of the frontier each explore takes: the boards the loop can end with,
\* each with the number of Ok results and the result that ended the loop.
\* Boards that differ in nothing are followed once.
RECURSIVE FloodEnds(_, _)
FloodEnds(running, ended) ==
    IF running = {} THEN ended
    ELSE LET results ==
                UNION {{[r |-> explore(x.board, first), oks |-> x.oks] :
                          first \in IterNext(x.board.cached)} : x \in running}
         IN  FloodEnds({[board |-> y.r.self, oks |-> y.oks + 1] :
                           y \in {z \in results : z.r.ret = "Ok"}},
                       ended \cup {[board |-> y.r.self, oks |-> y.oks,
                                    last |-> y.r.ret] :
                                      y \in {z \in results : z.r.ret # "Ok"}})

\* The least set that contains the cells of `region' and every neighbour on
\* the board of each of its members that has no mined neighbour.
RECURSIVE FloodRegion(_)
FloodRegion(region) ==
    LET grown == region \cup UNION {Adjacent(m) :
                    m \in {n \in region : Adjacent(n) \cap mines_at = {}}}
    IN  IF grown = region THEN region ELSE FloodRegion(grown)

\* C21: on a fresh board, enqueuing a cell c that is not mined and calling
\* explore until the frontier is empty ends, whichever element each call
\* takes from the frontier, with explored equal to the least set that holds
\* c and every neighbour on the board of each member without mined
\* neighbours, after as many Ok results as that set has cells.
C21_FloodOrderIndependent ==
    (hasBoard /\ call.op = "new") =>
        \A c \in DOMAIN labels \ mines_at :
            LET r == cache(Self, <<c[1] + 1, c[2] + 1>>, overflow_checks)
                region == FloodRegion({c})
            IN  /\ r.ret = "Ok"
                /\ \A e \in FloodEnds({[board |-> r.self, oks |-> 0]}, {}) :
                      /\ e.last \in {"EmptyCache", "BoardClear"}
                      /\ e.board.cached = {}
                      /\ e.board.clear = region
                      /\ e.oks = Cardinality(region)

\* C21's case: a drain has ended on a board with a mine, the explored cells
\* being the region of one of them, with blank cells inside it and digits
\* on its border, and a safe cell left outside it.
C21_Witness ==
    /\ call.op = "explore" /\ ret = "EmptyCache"
    /\ mines_at # {}
    /\ \E c \in clear : clear = FloodRegion({c})
    /\ Cardinality({c \in clear : LabelOf(Self, c) = " "}) >= 2
    /\ \E c \in clear : LabelOf(Self, c) \in {"1", "2"}

\* C22: while no explore has returned Mined, the text shows the flag marker
\* for a cell exactly when the cell is in flagged, blank or a digit 1-8
\* exactly when it is in explored, and the placeholder of the blank board
\* for a cell in neither.
C22_RenderMatchesSets ==
    hasBoard =>
        \A at \in DOMAIN labels :
            LET ch == LabelOf(Self, at)
            IN  /\ ch = ">" <=> at \in flagged
                /\ ch \in {" ", "1", "2", "3", "4", "5", "6", "7", "8"} <=> at \in clear
                /\ at \notin flagged \cup clear => ch = "."

\* C23: whenever explore returns BoardClear, explored is the set of the
\* board's cells that are not mined, also after an explore has returned
\* Mined.
C23_WinSound ==
    [](
        LET safe == ((0..(rows - 1)) \X (0..(cols - 1))) \ mines_at
        IN  /\ (call.op = "explore" /\ ret = "BoardClear") => clear = safe
            /\ (hasBoard /\ ~panicked) =>
                 \A first \in IterNext(cached) :
                    explore(Self, first).ret = "BoardClear" => clear = safe
      )

\* C23's case: explore returned BoardClear on a board whose mines had been
\* revealed by an earlier Mined result, a safe cell being explored.
C23_Witness ==
    /\ call.op = "explore" /\ ret = "BoardClear"
    /\ clear # {}
    /\ \E m \in mines_at : LabelOf(Self, m) = "*"

\* C24: every coordinate in the frontier, in explored and in flagged is a
\* cell of the board (row < rows, col < cols), and so is every mined one;
\* each has an entry in labels, so that labels.get finds one for the cell
\* explore takes from the frontier and for each mine reveal_mines unwraps,
\* and the sets explore leaves hold cells of the board again.
C24_CoordinatesOnBoard ==
    [](
        hasBoard =>
            LET cells == {c \in DOMAIN labels : c[1] < rows /\ c[2] < cols}
            IN  /\ cached \cup clear \cup flagged \cup mines_at \subseteq cells
                /\ ~panicked =>
                     \A first \in IterNext(cached) :
                        LET r == explore(Self, first)
                        IN  r.self.cached \cup r.self.clear \subseteq cells
      )

\* C24's case: a coordinate outside the board was refused while cells
\* were queued, explored and flagged and the mines had been revealed.
C24_Witness ==
    /\ call.op = "cache" /\ ret = "InvalidCoordinate"
    /\ cached # {} /\ clear # {} /\ flagged # {}
    /\ \E m \in mines_at : LabelOf(Self, m) = "*"

====
